---- MODULE Spec2Model ----
(***************************************************************************)
(* Model of the navigate-photoactivation plugin: the Photoactivation       *)
(* feature (model/features/photoactivation.py) driven by the host's signal *)
(* thread through pre_func_signal, in_func_signal and cleanup_func_signal, *)
(* against the NI-DAQmx tasks, the lasers and the shared configuration     *)
(* record that the controller (controller/photoactivation_controller.py)   *)
(* populates.                                                              *)
(*                                                                         *)
(* Each Python statement that touches the configuration record, a task or  *)
(* a laser is one step of the signal thread.  A statement either completes *)
(* or raises; an exception leaves the running callback unless the          *)
(* statement sits in a try block.  Voltages are integers in units of       *)
(* 1/100 V, scaling factors integers in units of 1/100 V per micron.       *)
(***************************************************************************)
EXTENDS Integers, Sequences, FiniteSets, TLC

VARIABLES
    pc,        \* signal thread: [phase, i] - callback running, statement index
    result,    \* how each callback of the current run ended
    runs,      \* number of runs the host has started on this object
    faults,    \* number of driver errors raised so far
    config,    \* configuration["experiment"]["Photoactivation"]
    daq,       \* model.active_microscope.daq
    tasks,     \* every nidaqmx.Task ever constructed, by handle
    lasers,    \* model.active_microscope.lasers
    self,      \* attributes of the Photoactivation object
    locals,    \* locals of the running callback
    calls,     \* hardware calls issued in the current run, in order
    warnings,  \* "Warning, could not write waveform" messages of the run
    widgets,   \* the values the view's widgets hold
    ctrl,      \* attributes of the PhotoactivationController object
    gui,       \* the GUI thread: the last handler run and how it ended
    other      \* a second Photoactivation object, while the first one runs

\* The controller and the second object.
xvars == <<widgets, ctrl, gui, other>>

vars == <<pc, result, runs, faults, config, daq, tasks, lasers, self, locals,
          calls, warnings, widgets, ctrl, gui, other>>

(***************************************************************************)
(* Bounds of the model.                                                    *)
(***************************************************************************)
MaxRuns == 2
MaxFaults == 1
MaxDuration == 2
MaxOffset == 1
MaxEvents == 1

(***************************************************************************)
(* Values.                                                                 *)
(***************************************************************************)
None == "None"
NoTask == 0

Lasers == {488, 561}
SampleRates == {500, 1000}
Durations == 1..MaxDuration
Offsets == {-MaxOffset, MaxOffset}
WidgetPatterns == {"Point", "Square", "Circle"}
Patterns == WidgetPatterns \cup {"square", "circle"}

Min(S) == CHOOSE x \in S : \A y \in S : x <= y

\* The order in which get_photoactivation_parameters reads the record.
ParamOrder ==
    << "x_pinout", "y_pinout", "laser_port_switcher", "y_scaling_factor",
       "x_scaling_factor", "laser_power", "duration", "pattern", "wavelength",
       "location_x", "location_y", "photoactivation_trigger",
       "photoactivation_source" >>

RequiredKeys == {ParamOrder[i] : i \in 1..Len(ParamOrder)}

\* The record update_configuration writes from get_default_parameters.
DefaultConfig ==
    [ x_pinout |-> "TIRF/ao0",
      y_pinout |-> "TIRF/ao1",
      laser_port_switcher |-> "TIRF/port1/line2",
      y_scaling_factor |-> 5,
      x_scaling_factor |-> 5,
      laser_power |-> 10,
      duration |-> 100,
      pattern |-> "Point",
      wavelength |-> 488,
      location_x |-> 0,
      location_y |-> 0,
      photoactivation_trigger |-> "TIRF/port0/line0",
      photoactivation_source |-> "/TIRF/PFI5" ]

Without(c, k) == [f \in (DOMAIN c) \ {k} |-> c[f]]

(***************************************************************************)
(* The callbacks as statement lists.  A statement is [op, a, blk]: the     *)
(* call made, the attribute of the object it is made on, and whether it    *)
(* sits inside the "if ... is None / if create_task" block that creates    *)
(* that attribute's task (and so runs only when the task was created in    *)
(* this call).                                                             *)
(***************************************************************************)
Stmt(o, t) == [op |-> o, a |-> t, blk |-> FALSE]
Blk(o, t) == [op |-> o, a |-> t, blk |-> TRUE]

get_photoactivation_parameters ==
    [i \in 1..Len(ParamOrder) |-> Stmt("read", ParamOrder[i])]

prepare_laser_switching_task ==
    << Stmt("acquire", "switch_task"),
       Blk("add_do_chan", "switch_task"),
       Stmt("write_true", "switch_task") >>

prepare_photoactivation_trigger_task ==
    << Stmt("create", "photoactivation_trigger_task"),
       Blk("add_do_chan", "photoactivation_trigger_task") >>

GalvoBlock(t) ==
    << Stmt("create", t),
       Blk("add_ao_voltage_chan", t),
       Blk("cfg_samp_clk_timing", t),
       Blk("cfg_dig_edge_start_trig", t) >>

prepare_galvo_tasks ==
    << Stmt("n_samples", "daq") >>
    \o GalvoBlock("task_x")
    \o GalvoBlock("task_y")
    \o << Stmt("waveform", "pattern"),
          Stmt("write_waveform", "task_x"),
          Stmt("write_waveform", "task_y") >>

\* Defective variant: the laser switching task is prepared before the parameters are read.
pre_func_signal_switch_first ==
    prepare_laser_switching_task
    \o get_photoactivation_parameters
    \o prepare_photoactivation_trigger_task
    \o prepare_galvo_tasks

pre_func_signal ==
    get_photoactivation_parameters
    \o prepare_laser_switching_task
    \o prepare_photoactivation_trigger_task
    \o prepare_galvo_tasks

trigger_photoactivation_laser ==
    << Stmt("set_power", "lasers"), Stmt("turn_on", "lasers") >>

GalvoDone(t) ==
    << Stmt("wait_until_done", t), Stmt("stop", t), Stmt("close", t) >>

perform_photoactivation ==
    << Stmt("write_pulse", "photoactivation_trigger_task") >>
    \o GalvoDone("task_x")
    \o GalvoDone("task_y")

\* Defective variant: execute loads the parameters again.
in_func_signal_reload ==
    get_photoactivation_parameters
    \o trigger_photoactivation_laser
    \o perform_photoactivation
    \o << Stmt("turn_off", "lasers") >>

in_func_signal ==
    trigger_photoactivation_laser
    \o perform_photoactivation
    \o << Stmt("turn_off", "lasers") >>

cleanup_tasks ==
    << Stmt("write_false", "switch_task"),
       Stmt("stop", "switch_task"),
       Stmt("close", "switch_task"),
       Stmt("stop", "photoactivation_trigger_task"),
       Stmt("close", "photoactivation_trigger_task") >>

cleanup_func_signal == cleanup_tasks

\* config_table["signal"]: the callback the host runs in each phase.
Program(phase) ==
    CASE phase = "init" -> pre_func_signal
      [] phase = "main" -> in_func_signal
      [] phase = "cleanup" -> cleanup_func_signal
      [] OTHER -> << >>

\* Defective variant: the waveform writes are not wrapped in a try block.
InTry_none(st) == FALSE

\* The statements of a try block whose handler prints a warning and goes on.
InTry(st) == st.op = "write_waveform"

Running == pc.phase \in {"init", "main", "cleanup"} /\ pc.i > 0
Cur == Program(pc.phase)[pc.i]
At(o) == Running /\ Cur.op = o

\* The statement that runs after statement i, given the tasks created in
\* this call (0: the callback returns).
NextIdx(phase, i, fresh) ==
    LET prog == Program(phase)
        later == {j \in (i + 1)..Len(prog) : ~prog[j].blk \/ prog[j].a \in fresh}
    IN  IF later = {} THEN 0 ELSE Min(later)

(***************************************************************************)
(* Hardware: nidaqmx tasks and lasers.                                     *)
(***************************************************************************)
\* new_task_name of the task each attribute holds.
TaskName(a) ==
    CASE a = "switch_task" -> "Laser Switching Task"
      [] a = "photoactivation_trigger_task" -> "Photoactivation Trigger"
      [] a = "task_x" -> "X-Galvo - Photoactivation"
      [] a = "task_y" -> "Y-Galvo - Photoactivation"

\* A task as nidaqmx.Task(new_task_name=...) returns it.
NewTask(name, owner) ==
    [ name |-> name, owner |-> owner, open |-> TRUE, started |-> FALSE,
      chan |-> None, timed |-> FALSE, samps |-> 0, trig |-> None,
      data |-> << >>, line |-> FALSE ]

\* The laser switching task the host's DAQ object may already hold.
HostSwitchTask ==
    [NewTask("_unnamedTask<0>", "host") EXCEPT !.chan = "TIRF/port1/line2"]

Handles == 1..Len(tasks)

\* Defective variant: tasks created without new_task_name never collide.
NameTaken_never(name) == FALSE

\* DAQmx refuses a task whose name another task that is not closed holds.
NameTaken(name) == \E h \in Handles : tasks[h].open /\ tasks[h].name = name

\* Task.write starts the task itself when auto_start is not passed and the
\* data holds a single sample per channel.
AutoStartUnset(n) == n <= 1

(***************************************************************************)
(* Pure computations of prepare_galvo_tasks.                               *)
(***************************************************************************)
\* int(x): truncation toward zero of the quotient num / den, den > 0.
IntTrunc(num, den) ==
    IF num >= 0 THEN num \div den ELSE -((-num) \div den)

\* self.n_samples = int(self.duration / 1000 * sample_rate)
NSamples(duration, sample_rate) == IntTrunc(duration * sample_rate, 1000)

\* location * scaling_factor
VoltageOffset(location, scaling_factor) == location * scaling_factor

\* np.hstack([offset] * n), defined for n >= 1 (np.hstack([]) raises).
HStack(offset, n) == [i \in 1..n |-> offset]

\* The branch of "if self.pattern == ..." taken.
PatternBranch(pattern) ==
    CASE pattern = "Point" -> "point"
      [] pattern = "square" -> "not_implemented"
      [] pattern = "circle" -> "not_implemented"
      [] OTHER -> "fall_through"

\* create_task of prepare_laser_switching_task.
\* Defective variant: only the presence of the attribute is tested.
CreateSwitchTask_hasattr_only(d) == ~d.hasattr

CreateSwitchTask(d) ==
    IF ~d.hasattr THEN TRUE ELSE d.laser_switching_task = NoTask

(***************************************************************************)
(* Control flow of the signal thread.                                      *)
(***************************************************************************)
NoLocals ==
    [ fresh |-> {}, bound |-> FALSE, x_waveform |-> << >>, y_waveform |-> << >> ]

NoResult == [init |-> "none", main |-> "none", cleanup |-> "none"]

\* The statement completed: go on, or return from the callback.
Return(fr) ==
    LET j == NextIdx(pc.phase, pc.i, fr)
    IN  /\ pc' = [pc EXCEPT !.i = j]
        /\ result' = IF j = 0 THEN [result EXCEPT ![pc.phase] = "ok"] ELSE result

Ok == Return(locals.fresh) /\ UNCHANGED warnings

\* The statement raised e: a try block's handler prints its warning and the
\* callback goes on; anywhere else the exception leaves the callback.
Raise(e) ==
    IF InTry(Cur)
    THEN /\ Return(locals.fresh)
         /\ warnings' = Append(warnings, [a |-> Cur.a, e |-> e])
    ELSE /\ pc' = [pc EXCEPT !.i = 0]
         /\ result' = [result EXCEPT ![pc.phase] = e]
         /\ UNCHANGED warnings

Log(o, target, good) ==
    calls' = Append(calls, [ phase |-> pc.phase, op |-> o, a |-> Cur.a,
                             t |-> target, ok |-> good ])

\* A method call on the task attribute a holds; upd is the task afterwards.
Invoke(upd) ==
    LET h == self[Cur.a]
    IN  \/ /\ h = NoTask
           /\ Raise("AttributeError")
           /\ UNCHANGED <<tasks, calls, faults>>
        \/ /\ h # NoTask
           /\ ~tasks[h].open
           /\ Log(Cur.op, h, Cur.op = "close")
           /\ IF Cur.op = "close" THEN Ok ELSE Raise("DaqError")
           /\ UNCHANGED <<tasks, faults>>
        \/ /\ h # NoTask
           /\ tasks[h].open
           /\ tasks' = [tasks EXCEPT ![h] = upd]
           /\ Log(Cur.op, h, TRUE)
           /\ Ok
           /\ UNCHANGED faults
        \/ /\ h # NoTask
           /\ tasks[h].open
           /\ faults < MaxFaults
           /\ faults' = faults + 1
           /\ Log(Cur.op, h, FALSE)
           /\ Raise("DaqError")
           /\ UNCHANGED tasks

\* nidaqmx.Task(new_task_name=TaskName(a)) assigned to attribute a.
Construct(a) ==
    \/ /\ ~NameTaken(TaskName(a))
       /\ tasks' = Append(tasks, NewTask(TaskName(a), "plugin"))
       /\ self' = [self EXCEPT ![a] = Len(tasks) + 1]
       /\ locals' = [locals EXCEPT !.fresh = @ \cup {a}]
       /\ Log("Task", Len(tasks) + 1, TRUE)
       /\ Return(locals.fresh \cup {a})
       /\ UNCHANGED <<warnings, faults>>
    \/ /\ NameTaken(TaskName(a))
       /\ Log("Task", NoTask, FALSE)
       /\ Raise("DaqError")
       /\ UNCHANGED <<tasks, self, locals, faults>>
    \/ /\ ~NameTaken(TaskName(a))
       /\ faults < MaxFaults
       /\ faults' = faults + 1
       /\ Log("Task", NoTask, FALSE)
       /\ Raise("DaqError")
       /\ UNCHANGED <<tasks, self, locals>>

(***************************************************************************)
(* pre_func_signal                                                         *)
(***************************************************************************)
\* self.<key> = self.config["<key>"]
ReadKey ==
    /\ At("read")
    /\ IF Cur.a \in DOMAIN config
       THEN self' = [self EXCEPT ![Cur.a] = config[Cur.a]] /\ Ok
       ELSE Raise("KeyError") /\ UNCHANGED self
    /\ UNCHANGED <<runs, faults, config, daq, tasks, lasers, locals, calls>>
    /\ UNCHANGED xvars

\* if create_task: self.switch_task = nidaqmx.Task(...)
\* else: self.switch_task = daq.laser_switching_task
AcquireSwitchTask ==
    /\ At("acquire")
    /\ IF CreateSwitchTask(daq)
       THEN Construct(Cur.a)
       ELSE /\ self' = [self EXCEPT ![Cur.a] = daq.laser_switching_task]
            /\ Ok
            /\ UNCHANGED <<tasks, locals, calls, faults>>
    /\ UNCHANGED <<runs, config, daq, lasers>>
    /\ UNCHANGED xvars

\* if self.<task> is None: self.<task> = nidaqmx.Task(...)
CreateTask ==
    /\ At("create")
    /\ IF self[Cur.a] = NoTask
       THEN Construct(Cur.a)
       ELSE Ok /\ UNCHANGED <<tasks, self, locals, calls, faults>>
    /\ UNCHANGED <<runs, config, daq, lasers>>
    /\ UNCHANGED xvars

\* The pinout the channel of attribute a's task is added on.
Pinout(a) ==
    CASE a = "switch_task" -> self.laser_port_switcher
      [] a = "photoactivation_trigger_task" -> self.photoactivation_trigger
      [] a = "task_x" -> self.x_pinout
      [] a = "task_y" -> self.y_pinout

\* do_channels.add_do_chan(...) / ao_channels.add_ao_voltage_chan(...)
AddChannel ==
    /\ (At("add_do_chan") \/ At("add_ao_voltage_chan"))
    /\ Invoke([tasks[self[Cur.a]] EXCEPT !.chan = Pinout(Cur.a)])
    /\ UNCHANGED <<runs, config, daq, lasers, self, locals>>
    /\ UNCHANGED xvars

\* timing.cfg_samp_clk_timing(rate, FINITE, samps_per_chan=self.n_samples)
CfgSampClkTiming ==
    /\ At("cfg_samp_clk_timing")
    /\ Invoke([tasks[self[Cur.a]] EXCEPT !.timed = TRUE, !.samps = self.n_samples])
    /\ UNCHANGED <<runs, config, daq, lasers, self, locals>>
    /\ UNCHANGED xvars

\* triggers.start_trigger.cfg_dig_edge_start_trig(photoactivation_source)
CfgStartTrigger ==
    /\ At("cfg_dig_edge_start_trig")
    /\ Invoke([tasks[self[Cur.a]] EXCEPT !.trig = self.photoactivation_source])
    /\ UNCHANGED <<runs, config, daq, lasers, self, locals>>
    /\ UNCHANGED xvars

\* self.n_samples = int(self.duration / 1000 * sample_rate)
CalcNSamples ==
    /\ At("n_samples")
    /\ self' = [self EXCEPT !.n_samples = NSamples(self.duration, daq.sample_rate)]
    /\ Ok
    /\ UNCHANGED <<runs, faults, config, daq, tasks, lasers, locals, calls>>
    /\ UNCHANGED xvars

\* The voltage offsets and the if/elif chain on self.pattern.
BuildWaveform ==
    /\ At("waveform")
    /\ LET x_voltage_offset == VoltageOffset(self.location_x, self.x_scaling_factor)
           y_voltage_offset == VoltageOffset(self.location_y, self.y_scaling_factor)
           branch == PatternBranch(self.pattern)
       IN  \/ /\ branch = "point"
              /\ self.n_samples >= 1
              /\ locals' = [locals EXCEPT
                               !.bound = TRUE,
                               !.x_waveform = HStack(x_voltage_offset, self.n_samples),
                               !.y_waveform = HStack(y_voltage_offset, self.n_samples)]
              /\ Ok
           \/ /\ branch = "point"
              /\ self.n_samples < 1
              /\ Raise("ValueError")
              /\ UNCHANGED locals
           \/ /\ branch = "not_implemented"
              /\ Raise("NotImplementedError")
              /\ UNCHANGED locals
           \/ /\ branch = "fall_through"
              /\ Ok
              /\ UNCHANGED locals
    /\ UNCHANGED <<runs, faults, config, daq, tasks, lasers, self, calls>>
    /\ UNCHANGED xvars

\* try: self.task_x.write(x_waveform) except Exception: print warning
WriteWaveform ==
    /\ At("write_waveform")
    /\ LET w == IF Cur.a = "task_x" THEN locals.x_waveform ELSE locals.y_waveform
       IN  IF locals.bound
           THEN Invoke([tasks[self[Cur.a]] EXCEPT
                           !.data = w,
                           !.started = @ \/ AutoStartUnset(Len(w))])
           ELSE /\ Raise("UnboundLocalError")
                /\ UNCHANGED <<tasks, calls, faults>>
    /\ UNCHANGED <<runs, config, daq, lasers, self, locals>>
    /\ UNCHANGED xvars

\* write(True, auto_start=True) / write(False, auto_start=True) /
\* write([False, True, True, True, False], auto_start=True)
WriteDigital ==
    /\ (At("write_true") \/ At("write_false") \/ At("write_pulse"))
    /\ Invoke([tasks[self[Cur.a]] EXCEPT
                  !.started = TRUE,
                  !.line = (Cur.op = "write_true")])
    /\ UNCHANGED <<runs, config, daq, lasers, self, locals>>
    /\ UNCHANGED xvars

(***************************************************************************)
(* in_func_signal                                                          *)
(***************************************************************************)
\* A call on lasers[str(self.wavelength)]; upd is the laser afterwards.
LaserCall(upd) ==
    /\ \/ /\ lasers' = [lasers EXCEPT ![self.wavelength] = upd]
          /\ Log(Cur.op, self.wavelength, TRUE)
          /\ Ok
          /\ UNCHANGED faults
       \/ /\ faults < MaxFaults
          /\ faults' = faults + 1
          /\ Log(Cur.op, self.wavelength, FALSE)
          /\ Raise("LaserError")
          /\ UNCHANGED lasers
    /\ UNCHANGED <<runs, config, daq, tasks, self, locals>>

SetPower ==
    /\ At("set_power")
    /\ LaserCall([lasers[self.wavelength] EXCEPT !.power = self.laser_power])
    /\ UNCHANGED xvars

TurnOn ==
    /\ At("turn_on")
    /\ LaserCall([lasers[self.wavelength] EXCEPT !.on = TRUE])
    /\ UNCHANGED xvars

TurnOff ==
    /\ At("turn_off")
    /\ LaserCall([lasers[self.wavelength] EXCEPT !.on = FALSE])
    /\ UNCHANGED xvars

WaitUntilDone ==
    /\ At("wait_until_done")
    /\ Invoke(tasks[self[Cur.a]])
    /\ UNCHANGED <<runs, config, daq, lasers, self, locals>>
    /\ UNCHANGED xvars

StopTask ==
    /\ At("stop")
    /\ Invoke([tasks[self[Cur.a]] EXCEPT !.started = FALSE])
    /\ UNCHANGED <<runs, config, daq, lasers, self, locals>>
    /\ UNCHANGED xvars

CloseTask ==
    /\ At("close")
    /\ Invoke([tasks[self[Cur.a]] EXCEPT !.open = FALSE, !.started = FALSE])
    /\ UNCHANGED <<runs, config, daq, lasers, self, locals>>
    /\ UNCHANGED xvars

(***************************************************************************)
(* The host's feature container: it runs the "init" callback, the "main"   *)
(* callback when "init" returned, and the "cleanup" callback after the     *)
(* feature is done or when a callback raised.                              *)
(***************************************************************************)
HostCallInit ==
    /\ pc.phase = "idle"
    /\ runs < MaxRuns
    /\ runs' = runs + 1
    /\ pc' = [phase |-> "init", i |-> 1]
    /\ result' = NoResult
    /\ locals' = NoLocals
    /\ calls' = << >>
    /\ warnings' = << >>
    /\ UNCHANGED <<faults, config, daq, tasks, lasers, self>>
    /\ UNCHANGED xvars

HostCallMain ==
    /\ pc = [phase |-> "init", i |-> 0]
    /\ result.init = "ok"
    /\ pc' = [phase |-> "main", i |-> 1]
    /\ locals' = NoLocals
    /\ UNCHANGED <<result, runs, faults, config, daq, tasks, lasers, self,
                   calls, warnings>>
    /\ UNCHANGED xvars

HostCallCleanup ==
    /\ pc.i = 0
    /\ \/ pc.phase = "init" /\ result.init # "ok"
       \/ pc.phase = "main"
    /\ pc' = [phase |-> "cleanup", i |-> 1]
    /\ locals' = NoLocals
    /\ UNCHANGED <<result, runs, faults, config, daq, tasks, lasers, self,
                   calls, warnings>>
    /\ UNCHANGED xvars

HostFinish ==
    /\ pc = [phase |-> "cleanup", i |-> 0]
    /\ pc' = [phase |-> "idle", i |-> 0]
    /\ UNCHANGED <<result, runs, faults, config, daq, tasks, lasers, self,
                   locals, calls, warnings>>
    /\ UNCHANGED xvars

(***************************************************************************)
(* Initial states.                                                         *)
(***************************************************************************)
\* Records holding all 13 keys: the controller's defaults with the pattern,
\* the duration and the marked position varied.
CompleteConfigs ==
    { [DefaultConfig EXCEPT
          !.pattern = p, !.duration = d, !.location_x = lx, !.location_y = 1] :
        p \in Patterns, d \in Durations, lx \in Offsets }

\* Records lacking one key, and the empty record the controller creates.
PartialConfigs ==
    { Without([DefaultConfig EXCEPT !.duration = 1], k) : k \in RequiredKeys }
    \cup { << >> }

\* The DAQ object: without a laser_switching_task attribute, with the
\* attribute None, or holding the host's task.
DaqObjects ==
    { [hasattr |-> b, laser_switching_task |-> h, sample_rate |-> r] :
        b \in BOOLEAN, h \in {NoTask, 1}, r \in SampleRates }

\* A Photoactivation object as its constructor leaves it.
NewSelf ==
    [ pattern |-> "point", location_x |-> None, location_y |-> None,
      wavelength |-> None, laser_port_switcher |-> None,
      photoactivation_trigger |-> None, photoactivation_source |-> None,
      photoactivation_trigger_task |-> NoTask, switch_task |-> NoTask,
      x_pinout |-> None, task_x |-> NoTask, x_scaling_factor |-> None,
      y_pinout |-> None, task_y |-> NoTask, y_scaling_factor |-> None,
      duration |-> None, n_samples |-> None, laser_power |-> None ]

\* What belongs to one Photoactivation object and its signal callbacks.
NewContext ==
    [ pc |-> [phase |-> "idle", i |-> 0], result |-> NoResult, runs |-> 0,
      self |-> NewSelf, locals |-> NoLocals, calls |-> << >>,
      warnings |-> << >> ]

\* The view before the controller has filled it.
NoWidgets ==
    [ Laser |-> None, Power |-> None, Duration |-> None, Pattern |-> None,
      OffsetX |-> None, OffsetY |-> None ]

\* The controller's attributes before its constructor has run.
NoCtrl ==
    [ constructed |-> FALSE, laser |-> None, laser_power |-> None,
      duration |-> None, pattern |-> None, location_x |-> None,
      location_y |-> None, pinout_x |-> None, pinout_y |-> None,
      switch |-> None, photoactivation_trigger |-> None,
      photoactivation_source |-> None, x_scaling_factor |-> None,
      y_scaling_factor |-> None ]

\* The GUI thread: the handler it is in ("none": idle), the next record
\* write of update_configuration (0: none), how the last handler ended,
\* the pair calculate_offset returned, the events handled so far, and
\* (history) every location and laser setting the record has held.
NoGui ==
    [ handler |-> "none", k |-> 0, outcome |-> "none", offset |-> << >>,
      events |-> 0, versions |-> {} ]

\* The hardware and one idle Photoactivation object.
InitSequencer ==
    /\ pc = NewContext.pc
    /\ result = NewContext.result
    /\ daq \in {d \in DaqObjects : ~d.hasattr => d.laser_switching_task = NoTask}
    /\ tasks = IF daq.laser_switching_task = NoTask THEN << >> ELSE <<HostSwitchTask>>
    /\ lasers = [w \in Lasers |-> [power |-> 0, on |-> FALSE]]
    /\ self = NewContext.self
    /\ locals = NewContext.locals
    /\ calls = NewContext.calls
    /\ warnings = NewContext.warnings

\* One object, a record that no GUI handler touches during the run.
Init ==
    /\ InitSequencer
    /\ runs = 0
    /\ faults = 0
    /\ config \in CompleteConfigs \cup PartialConfigs
    /\ widgets = NoWidgets
    /\ ctrl = NoCtrl
    /\ gui = NoGui
    /\ other = NewContext

Next ==
    \/ HostCallInit
    \/ HostCallMain
    \/ HostCallCleanup
    \/ HostFinish
    \/ ReadKey
    \/ AcquireSwitchTask
    \/ CreateTask
    \/ AddChannel
    \/ CfgSampClkTiming
    \/ CfgStartTrigger
    \/ CalcNSamples
    \/ BuildWaveform
    \/ WriteWaveform
    \/ WriteDigital
    \/ SetPower
    \/ TurnOn
    \/ TurnOff
    \/ WaitUntilDone
    \/ StopTask
    \/ CloseTask

Spec == Init /\ [][Next]_vars

(***************************************************************************)
(* Vocabulary of the properties.                                           *)
(***************************************************************************)
Complete(c) == RequiredKeys \subseteq DOMAIN c

GalvoAttrs == {"task_x", "task_y"}
SwitchNames == {TaskName("switch_task"), HostSwitchTask.name}
ReleasedNames ==
    {TaskName("photoactivation_trigger_task"), TaskName("task_x"), TaskName("task_y")}

Shared == daq.hasattr /\ daq.laser_switching_task # NoTask

\* The calls of the current run that are call o of phase p.
CallsOf(p, o) == {i \in 1..Len(calls) : calls[i].phase = p /\ calls[i].op = o}
Created == {i \in 1..Len(calls) : calls[i].op = "Task" /\ calls[i].ok}
Ended(p) == pc = [phase |-> p, i |-> 0]
Warned(a) == \E i \in 1..Len(warnings) : warnings[i].a = a

(***************************************************************************)
(* Two Photoactivation objects on the same DAQ, lasers and record.  The    *)
(* host's signal thread runs one callback at a time, so the callbacks of   *)
(* the two objects interleave call by call.                                *)
(***************************************************************************)
Context ==
    [ pc |-> pc, result |-> result, runs |-> runs, self |-> self,
      locals |-> locals, calls |-> calls, warnings |-> warnings ]

\* Between two callbacks the signal thread turns to the other object.
SwitchObject ==
    /\ ~Running
    /\ other' = Context
    /\ pc' = other.pc
    /\ result' = other.result
    /\ runs' = other.runs
    /\ self' = other.self
    /\ locals' = other.locals
    /\ calls' = other.calls
    /\ warnings' = other.warnings
    /\ UNCHANGED <<faults, config, daq, tasks, lasers, widgets, ctrl, gui>>

\* Both objects idle, every run ahead of them, and room for one driver error.
InitTwo ==
    /\ InitSequencer
    /\ runs = 0
    /\ faults = MaxFaults - 1
    /\ daq.sample_rate = 1000
    /\ config = [DefaultConfig EXCEPT !.duration = MaxDuration,
                                      !.location_x = MaxOffset,
                                      !.location_y = 1]
    /\ widgets = NoWidgets
    /\ ctrl = NoCtrl
    /\ gui = NoGui
    /\ other = NewContext

NextTwo ==
    \/ Next
    \/ SwitchObject

SpecTwo == InitTwo /\ [][NextTwo]_vars

\* The galvo and trigger tasks an object holds that are not closed.
Holds(obj) ==
    {h \in Handles :
        /\ \E a \in GalvoAttrs \cup {"photoactivation_trigger_task"} : obj[a] = h
        /\ tasks[h].open}

(***************************************************************************)
(* The controller: widget texts and the conversions update_configuration   *)
(* applies to them.                                                        *)
(***************************************************************************)
\* The upper end of the Power spinbox.
PowerTo == 100

\* The numbers a widget text can spell.
Numerals ==
    Lasers \cup Durations \cup Offsets \cup
    {0, DefaultConfig.laser_power, DefaultConfig.duration, PowerTo}

\* widget.set(n): the text the widget then holds.
Str(n) == ToString(n)

\* int(text) and float(text) raise ValueError on a text that spells no number.
IsInt(text) == \E n \in Numerals : Str(n) = text
IntOf(text) == CHOOSE n \in Numerals : Str(n) = text
FractionTexts == {"1.5"}
IsFloat(text) == IsInt(text) \/ text \in FractionTexts
FloatOf(text) == IntOf(text)

\* The entries of channels_info["laser"], and text.rstrip("nm").
LaserNames == {Str(w) \o "nm" : w \in Lasers}
RStripNm(text) ==
    IF \E w \in Lasers : text = Str(w) \o "nm"
    THEN Str(CHOOSE w \in Lasers : text = Str(w) \o "nm")
    ELSE text

\* What the user can leave in each editable widget.
Choices(w) ==
    CASE w = "Laser" -> LaserNames
      [] w = "Pattern" -> WidgetPatterns
      [] w = "Power" -> {Str(PowerTo), ""}
      [] w = "Duration" -> {Str(d) : d \in Durations} \cup FractionTexts

\* get_default_parameters
DefaultCtrl ==
    [ constructed |-> FALSE,
      pinout_x |-> "TIRF/ao0", pinout_y |-> "TIRF/ao1",
      photoactivation_trigger |-> "TIRF/port0/line0",
      photoactivation_source |-> "/TIRF/PFI5",
      x_scaling_factor |-> 5, y_scaling_factor |-> 5,
      laser_power |-> 10, duration |-> 100, pattern |-> "Point",
      laser |-> Str(Min(Lasers)) \o "nm",
      switch |-> "TIRF/port1/line2",
      location_y |-> 0, location_x |-> 0 ]

\* populate_widgets
Populate(c) ==
    [ Laser |-> c.laser, Power |-> Str(c.laser_power),
      Duration |-> Str(c.duration), Pattern |-> c.pattern,
      OffsetX |-> Str(c.location_x), OffsetY |-> Str(c.location_y) ]

\* Defective variant: only the laser is converted before the writes begin.
ConvOk_laser_only(w) == IsInt(RStripNm(w.Laser))

\* Lines 219-224 of update_configuration: each attribute is assigned as
\* its widget converts; the first text that does not convert raises.
ConvOk(w) ==
    /\ IsInt(RStripNm(w.Laser))
    /\ IsFloat(w.Power)
    /\ IsInt(w.Duration)
    /\ IsFloat(w.OffsetX)
    /\ IsFloat(w.OffsetY)

Converted(c, w) ==
    LET ok1 == IsInt(RStripNm(w.Laser))
        ok2 == ok1 /\ IsFloat(w.Power)
        ok3 == ok2 /\ IsInt(w.Duration)
        ok5 == ok3 /\ IsFloat(w.OffsetX)
        ok6 == ok5 /\ IsFloat(w.OffsetY)
    IN  [ c EXCEPT
            !.laser = IF ok1 THEN IntOf(RStripNm(w.Laser)) ELSE @,
            !.laser_power = IF ok2 THEN FloatOf(w.Power) ELSE @,
            !.duration = IF ok3 THEN IntOf(w.Duration) ELSE @,
            !.pattern = IF ok3 THEN w.Pattern ELSE @,
            !.location_x = IF ok5 THEN FloatOf(w.OffsetX) ELSE @,
            !.location_y = IF ok6 THEN FloatOf(w.OffsetY) ELSE @ ]

\* Defective variant: the last assignment is missing.
WriteOrder_short ==
    << "wavelength", "laser_power", "duration", "pattern", "location_x",
       "location_y", "x_pinout", "y_pinout", "laser_port_switcher",
       "photoactivation_trigger", "photoactivation_source",
       "y_scaling_factor" >>

\* The order in which update_configuration writes the record, and the
\* attribute it writes under each key.
WriteOrder ==
    << "wavelength", "laser_power", "duration", "pattern", "location_x",
       "location_y", "x_pinout", "y_pinout", "laser_port_switcher",
       "photoactivation_trigger", "photoactivation_source",
       "y_scaling_factor", "x_scaling_factor" >>

CtrlValue(c, key) ==
    CASE key = "wavelength" -> c.laser
      [] key = "x_pinout" -> c.pinout_x
      [] key = "y_pinout" -> c.pinout_y
      [] key = "laser_port_switcher" -> c.switch
      [] OTHER -> c[key]

\* Defective variant: the offset widgets are not updated.
MarkWidgets_stale(w, ox, oy) == w

\* The location and the laser setting a record holds at one instant.
PairKeys == {"location_x", "location_y", "wavelength", "laser_power"}
VersionOf(c) ==
    IF PairKeys \subseteq DOMAIN c THEN {[key \in PairKeys |-> c[key]]} ELSE {}

\* mark_position puts the pair into the two offset widgets.
MarkWidgets(w, ox, oy) == [w EXCEPT !.OffsetX = Str(ox), !.OffsetY = Str(oy)]

\* update_configuration is entered from handler h with widgets w.
EnterUpdate(h, w, c, off, n) ==
    /\ widgets' = w
    /\ ctrl' = Converted(c, w)
    /\ gui' = IF ConvOk(w)
              THEN [ handler |-> h, k |-> 1, outcome |-> "none",
                     offset |-> off, events |-> n,
                     versions |-> gui.versions ]
              ELSE [ handler |-> "none", k |-> 0, outcome |-> "ValueError",
                     offset |-> off, events |-> n,
                     versions |-> gui.versions ]
    /\ UNCHANGED <<pc, result, runs, faults, config, daq, tasks, lasers, self,
                   locals, calls, warnings, other>>

\* PhotoactivationController.__init__ up to the conversions of its
\* update_configuration.
ControllerInit ==
    /\ ~ctrl.constructed
    /\ gui = NoGui
    /\ EnterUpdate("__init__", Populate(DefaultCtrl), DefaultCtrl, << >>, 0)

\* The user leaves text t in widget w; the bound update_configuration runs.
WidgetEvent ==
    /\ ctrl.constructed
    /\ gui.handler = "none"
    /\ gui.events < MaxEvents
    /\ \E w \in {"Laser", "Pattern", "Power", "Duration"} :
           \E t \in Choices(w) :
               EnterUpdate("update_configuration", [widgets EXCEPT ![w] = t],
                           ctrl, << >>, gui.events + 1)

\* "Photoactivate Here": mark_position with calculate_offset() = (ox, oy).
MarkPosition ==
    /\ ctrl.constructed
    /\ gui.handler = "none"
    /\ gui.events < MaxEvents
    /\ \E ox \in Offsets, oy \in Offsets :
           EnterUpdate("mark_position", MarkWidgets(widgets, ox, oy),
                       [ctrl EXCEPT !.location_x = ox, !.location_y = oy],
                       <<ox, oy>>, gui.events + 1)

\* One assignment to the proxy dict; after the last one the handler returns.
WriteRecordKey ==
    /\ gui.k >= 1
    /\ config' = (WriteOrder[gui.k] :> CtrlValue(ctrl, WriteOrder[gui.k])) @@ config
    /\ IF gui.k < Len(WriteOrder)
       THEN /\ gui' = [gui EXCEPT !.k = @ + 1,
                                  !.versions = @ \cup VersionOf(config')]
            /\ UNCHANGED ctrl
       ELSE /\ gui' = [gui EXCEPT !.handler = "none", !.k = 0, !.outcome = "ok",
                                  !.versions = @ \cup VersionOf(config')]
            /\ ctrl' = [ctrl EXCEPT !.constructed = (gui.handler = "__init__") \/ @]
    /\ UNCHANGED <<pc, result, runs, faults, daq, tasks, lasers, self, locals,
                   calls, warnings, widgets, other>>

\* One controller and the record it creates empty; one object with one
\* run ahead of it, on a driver that raises no error.
InitGui ==
    /\ InitSequencer
    /\ runs = MaxRuns - 1
    /\ faults = MaxFaults
    /\ daq.sample_rate = 1000
    /\ ~daq.hasattr
    /\ config = << >>
    /\ widgets = NoWidgets
    /\ ctrl = NoCtrl
    /\ gui = NoGui
    /\ other = NewContext

NextGui ==
    \/ Next
    \/ ControllerInit
    \/ WidgetEvent
    \/ MarkPosition
    \/ WriteRecordKey

SpecGui == InitGui /\ [][NextGui]_vars

\* The parameters the object holds, and whether the current run's load
\* of them is over.
Snapshot == [k \in RequiredKeys |-> self[k]]
Loaded ==
    \/ pc.phase \in {"main", "cleanup"}
    \/ /\ pc.phase = "init"
       /\ \/ pc.i > Len(get_photoactivation_parameters)
          \/ pc.i = 0 /\ result.init # "KeyError"

\* The entries of the record that no widget the user can edit feeds.
FixedKeys ==
    {"x_pinout", "y_pinout", "laser_port_switcher", "x_scaling_factor",
     "y_scaling_factor", "photoactivation_trigger", "photoactivation_source"}

(***************************************************************************)
(* C1: a run whose pattern is Square or Circle fails in prepare with the   *)
(* not-implemented error before any task is created, and never reaches     *)
(* execute.                                                                *)
(***************************************************************************)
C1_UnsupportedPatternFails ==
    (Complete(config) /\ config.pattern \in WidgetPatterns \ {"Point"}) =>
        /\ pc.phase # "main"
        /\ result.init # "ok"
        /\ result.init = "NotImplementedError" => Created = {}

(***************************************************************************)
(* C2: cleanup never closes the laser-switch task, whether prepare created *)
(* it or took the host's shared one, and creates no task.                  *)
(***************************************************************************)
C2_CleanupLeavesSwitchOpen ==
    [][ (pc.phase = "cleanup" /\ faults = 0) =>
            /\ Len(tasks') = Len(tasks)
            /\ \A h \in Handles :
                   (tasks[h].name \in SwitchNames /\ tasks[h].open) => tasks'[h].open
      ]_vars

(***************************************************************************)
(* C3: when cleanup has returned, every galvo and trigger task the object  *)
(* created is stopped and closed, whichever step of prepare or execute     *)
(* raised.                                                                 *)
(***************************************************************************)
C3_CleanupReleasesTasks ==
    (Ended("cleanup") /\ result.cleanup = "ok") =>
        \A h \in Handles :
            (tasks[h].owner = "plugin" /\ tasks[h].name \in ReleasedNames) =>
                ~tasks[h].open /\ ~tasks[h].started

(***************************************************************************)
(* C4: in every execute set_power precedes turn_on, the trigger pulse      *)
(* follows turn_on, turn_off follows the completion waits, and an execute  *)
(* that turned the laser on has called turn_off exactly once when it ends. *)
(***************************************************************************)
C4_LaserCallOrder ==
    LET before(i, o) == \E j \in CallsOf("main", o) : j < i /\ calls[j].ok
        waited(i, a) == \E j \in CallsOf("main", "wait_until_done") :
                            j < i /\ calls[j].ok /\ calls[j].a = a
    IN  /\ \A i \in CallsOf("main", "turn_on") : before(i, "set_power")
        /\ \A i \in CallsOf("main", "write_pulse") : before(i, "turn_on")
        /\ \A i \in CallsOf("main", "turn_off") : \A a \in GalvoAttrs : waited(i, a)
        /\ (Ended("main") /\ \E i \in CallsOf("main", "turn_on") : calls[i].ok) =>
               Cardinality(CallsOf("main", "turn_off")) = 1

(***************************************************************************)
(* C5: with a record lacking a required key, the parameter load of prepare *)
(* raises the missing-key error and prepare has issued no hardware call.   *)
(***************************************************************************)
C5_MissingKeyBeforeHardware ==
    (pc.phase = "init" /\ ~Complete(config)) =>
        /\ calls = << >>
        /\ pc.i <= Len(get_photoactivation_parameters)
        /\ pc.i = 0 => result.init = "KeyError"

C5_Witness ==
    /\ Ended("init")
    /\ result.init = "KeyError"
    /\ Cardinality(RequiredKeys \ DOMAIN config) = 1
    /\ calls = << >>

(***************************************************************************)
(* C6: with a shared laser-switch task, two successive runs create no      *)
(* laser-switch task, never close the shared one, and every write of true  *)
(* finds it open.                                                          *)
(***************************************************************************)
C6_SharedSwitchReusable ==
    (Shared /\ At("write_true")) =>
        /\ \A h \in Handles : tasks[h].name # TaskName("switch_task")
        /\ self.switch_task = daq.laser_switching_task
        /\ tasks[self.switch_task].open

(***************************************************************************)
(* C7: cleanup returns without raising from every state a failed prepare   *)
(* leaves behind.                                                          *)
(***************************************************************************)
C7_CleanupNeverRaises ==
    (Ended("cleanup") /\ result.init # "ok") => result.cleanup = "ok"

(***************************************************************************)
(* C8: when the trigger pulse is written, each galvo task is configured,   *)
(* holds its waveform and has been started.                                *)
(***************************************************************************)
C8_GalvoArmedAtPulse ==
    (At("write_pulse") /\ self.pattern = "Point" /\ warnings = << >>) =>
        \A a \in GalvoAttrs :
            /\ self[a] # NoTask
            /\ tasks[self[a]].open
            /\ tasks[self[a]].timed
            /\ tasks[self[a]].trig = self.photoactivation_source
            /\ tasks[self[a]].data # << >>
            /\ tasks[self[a]].started

(***************************************************************************)
(* C9: for pattern Point, prepare computes for each axis a constant        *)
(* waveform of n_samples = floor(duration / 1000 * sample_rate) elements   *)
(* equal to location * scaling_factor, and configures the galvo task for   *)
(* n_samples samples.                                                      *)
(***************************************************************************)
C9_PointWaveform ==
    LET n == (config.duration * daq.sample_rate) \div 1000
        wave(v) == [i \in 1..n |-> v]
    IN  (Complete(config) /\ config.pattern = "Point" /\ runs = 1
         /\ pc.phase = "init" /\ pc.i = 0 /\ faults = 0) =>
            /\ result.init = "ok"
            /\ self.n_samples = n
            /\ locals.x_waveform = wave(config.location_x * config.x_scaling_factor)
            /\ locals.y_waveform = wave(config.location_y * config.y_scaling_factor)
            /\ \A a \in GalvoAttrs : tasks[self[a]].samps = n

(***************************************************************************)
(* C10: an exception of a waveform write becomes a warning and prepare     *)
(* goes on to the y write and returns; a failed call of any other kind     *)
(* makes its callback raise.                                               *)
(***************************************************************************)
C10_OnlyWaveformWriteDowngraded ==
    /\ \A i \in 1..Len(calls) :
           ~calls[i].ok =>
               IF calls[i].op = "write_waveform"
               THEN Warned(calls[i].a) /\ result.init \in {"none", "ok"}
               ELSE result[calls[i].phase] \notin {"none", "ok"}
    /\ \A i \in 1..Len(warnings) : warnings[i].a \in GalvoAttrs
    /\ (pc.phase = "init" /\ Warned("task_x")) =>
           \/ Running /\ Cur = Stmt("write_waveform", "task_y")
           \/ /\ Ended("init")
              /\ result.init = "ok"
              /\ Warned("task_y") \/ CallsOf("init", "write_waveform") # {}

C10_Witness ==
    /\ Ended("cleanup")
    /\ runs = 1
    /\ result.init = "ok"
    /\ result.main # "none"
    /\ \E i \in CallsOf("init", "write_waveform") :
           ~calls[i].ok /\ calls[i].a = "task_x"
    /\ \E i \in CallsOf("init", "write_waveform") : calls[i].ok /\ calls[i].a = "task_y"

(***************************************************************************)
(* C13: in one run no task is created twice, and every run whose prepare   *)
(* returned has created its trigger task in that prepare.                  *)
(***************************************************************************)
C13_TriggerTaskFreshEachRun ==
    /\ \A i, j \in Created : calls[i].a = calls[j].a => i = j
    /\ (faults = 0 /\ (pc.phase = "main" \/ (Ended("init") /\ result.init = "ok"))) =>
           \E i \in Created :
               /\ calls[i].a = "photoactivation_trigger_task"
               /\ calls[i].phase = "init"
               /\ self.photoactivation_trigger_task = calls[i].t

(***************************************************************************)
(* C14: a galvo or trigger task is created in a run only after that run    *)
(* has asked the host to stop the acquisition.                             *)
(***************************************************************************)
C14_StopAcquisitionFirst ==
    \A i \in Created :
        calls[i].a \in GalvoAttrs \cup {"photoactivation_trigger_task"} =>
            \E j \in 1..(i - 1) : calls[j].op = "stop_acquisition"

(***************************************************************************)
(* C15: while a laser is on, the laser-switch line of the task the object  *)
(* holds is engaged: it was written true before turn_on, and it is written *)
(* false only after turn_off.                                              *)
(***************************************************************************)
C15_SwitchEngagedWhileLaserOn ==
    \A w \in Lasers :
        lasers[w].on =>
            /\ self.switch_task # NoTask
            /\ tasks[self.switch_task].line

(***************************************************************************)
(* C19: when the cleanup callback has returned or raised, no laser is on.  *)
(***************************************************************************)
C19_LaserOffAfterCleanup ==
    Ended("cleanup") => \A w \in Lasers : ~lasers[w].on

(***************************************************************************)
(* C20: every write, wait_until_done, stop and close that a callback       *)
(* issues goes to a task that is not closed at the time of the call, in    *)
(* runs without a driver error.                                            *)
(***************************************************************************)
C20_NoCallOnClosedHandle ==
    [][ ( /\ faults' = 0
          /\ Len(calls') = Len(calls) + 1
          /\ calls'[Len(calls')].op \in
                 {"write_true", "write_false", "write_pulse", "write_waveform",
                  "wait_until_done", "stop", "close"} ) =>
            tasks[calls'[Len(calls')].t].open
      ]_vars

(***************************************************************************)
(* C16: when prepare is about to write the switch line, the task it holds  *)
(* is one it created in this prepare exactly if the DAQ object has no      *)
(* laser_switching_task attribute or the attribute is None; otherwise it   *)
(* is the DAQ object's task and prepare has created nothing.  Every write  *)
(* of true goes to that task, and prepare does not pass on to the trigger  *)
(* task before the write has succeeded.                                    *)
(***************************************************************************)
C16_SwitchTaskChoice ==
    /\ (pc.phase = "init" /\ At("write_true")) =>
           IF ~daq.hasattr \/ daq.laser_switching_task = NoTask
           THEN /\ self.switch_task # NoTask
                /\ tasks[self.switch_task].owner = "plugin"
                /\ tasks[self.switch_task].name = "Laser Switching Task"
                /\ \E i \in Created :
                       calls[i].a = "switch_task" /\ calls[i].t = self.switch_task
           ELSE /\ self.switch_task = daq.laser_switching_task
                /\ CallsOf("init", "Task") = {}
    /\ \A i \in CallsOf("init", "write_true") : calls[i].t = self.switch_task
    /\ \A i \in CallsOf("init", "Task") :
           calls[i].a # "switch_task" =>
               \E j \in CallsOf("init", "write_true") : j < i /\ calls[j].ok

C16_Witness ==
    /\ daq.hasattr
    /\ daq.laser_switching_task = NoTask
    /\ pc.phase = "init"
    /\ \E i \in CallsOf("init", "write_true") :
           /\ calls[i].ok
           /\ tasks[calls[i].t].owner = "plugin"
           /\ tasks[calls[i].t].line

C11_RecordReadOncePerRun ==
    [][ /\ At("read") =>
               /\ pc.phase = "init"
               /\ calls = << >>
               /\ pc.i <= Len(ParamOrder)
               /\ Cur.a = ParamOrder[pc.i]
        /\ (Loaded /\ runs' = runs) => Snapshot' = Snapshot
        /\ \A w \in Lasers :
               lasers'[w] # lasers[w] =>
                   /\ w = self.wavelength
                   /\ lasers'[w].power \in {lasers[w].power, self.laser_power}
        /\ \A h \in Handles :
               tasks'[h].chan # tasks[h].chan =>
                   tasks'[h].chan \in {self.x_pinout, self.y_pinout,
                                       self.laser_port_switcher,
                                       self.photoactivation_trigger}
      ]_vars

C11_Witness ==
    /\ pc.phase = "main"
    /\ gui.events >= 1
    /\ gui.outcome = "ok"
    /\ Complete(config)
    /\ config.laser_power # self.laser_power
    /\ lasers[self.wavelength].on
    /\ lasers[self.wavelength].power = self.laser_power

(***************************************************************************)
(* C12: from the return of the controller's constructor on the record has  *)
(* all 13 keys; no handler step takes a key away, and no step of a load    *)
(* made after the constructor raises KeyError.                             *)
(***************************************************************************)
C12_RecordCompleteOnceConstructed ==
    [][ /\ ctrl.constructed => Complete(config)
        /\ Complete(config) => Complete(config')
        /\ (ctrl.constructed /\ At("read") /\ pc' # pc) =>
               /\ result'.init # "KeyError"
               /\ self'[Cur.a] = config[Cur.a]
      ]_vars

C12_Witness ==
    /\ ctrl.constructed
    /\ gui.events >= 1
    /\ gui.outcome = "ValueError"
    /\ Complete(config)
    /\ Ended("init")
    /\ result.init = "ok"

(***************************************************************************)
(* C18: when mark_position returns, location_x and location_y of the       *)
(* record are the pair calculate_offset returned, which the two offset     *)
(* widgets show; no step of mark_position changes a pinout, a scaling      *)
(* factor, the trigger or the source entry.                                *)
(***************************************************************************)
C18_MarkPositionWritesOffsets ==
    [][ /\ (gui.handler = "mark_position" /\ gui'.handler = "none") =>
               /\ gui'.outcome = "ok"
               /\ config'.location_x = gui.offset[1]
               /\ config'.location_y = gui.offset[2]
               /\ widgets'.OffsetX = Str(gui.offset[1])
               /\ widgets'.OffsetY = Str(gui.offset[2])
        /\ gui.handler = "mark_position" =>
               \A key \in FixedKeys :
                   key \in DOMAIN config /\ config'[key] = config[key]
      ]_vars

C18_Witness ==
    /\ gui.handler = "none"
    /\ gui.outcome = "ok"
    /\ gui.offset # << >>
    /\ config.location_x = gui.offset[1]
    /\ config.location_y = gui.offset[2]
    /\ config.location_x # DefaultCtrl.location_x

(***************************************************************************)
(* C21: when a load has returned, the location pair the object holds was   *)
(* in the record at one instant, and so was the pair of wavelength and     *)
(* laser power.                                                            *)
(***************************************************************************)
C21_SnapshotIsOneVersion ==
    (Loaded /\ result.init # "KeyError") =>
        /\ \E v \in gui.versions :
               /\ v.location_x = self.location_x
               /\ v.location_y = self.location_y
        /\ \E v \in gui.versions :
               /\ v.wavelength = self.wavelength
               /\ v.laser_power = self.laser_power

(***************************************************************************)
(* C22: a call of update_configuration in which a widget text does not     *)
(* convert raises ValueError without any step that changes the record; a   *)
(* call in which every text converts returns with each of the 13 entries   *)
(* written from the converted values.  The record changes in no other way. *)
(***************************************************************************)
C22_UpdateAllOrNothing ==
    [][ /\ (gui.handler = "none" /\ gui' # gui) =>
               /\ config' = config
               /\ IF /\ widgets'.Laser \in LaserNames
                     /\ \E n \in Numerals : widgets'.Duration = Str(n)
                     /\ \A t \in {widgets'.Power, widgets'.OffsetX,
                                   widgets'.OffsetY} :
                            \/ \E n \in Numerals : t = Str(n)
                            \/ t \in FractionTexts
                  THEN gui'.handler # "none" /\ gui'.k = 1
                  ELSE gui'.handler = "none" /\ gui'.outcome = "ValueError"
        /\ config' # config => (gui.handler # "none" /\ gui'.outcome # "ValueError")
        /\ (gui.handler # "none" /\ gui'.handler = "none") =>
               /\ gui'.outcome = "ok"
               /\ DOMAIN config' = RequiredKeys
               /\ config'.wavelength = IntOf(RStripNm(widgets.Laser))
               /\ config'.laser_power = FloatOf(widgets.Power)
               /\ config'.duration = IntOf(widgets.Duration)
               /\ config'.pattern = widgets.Pattern
               /\ config'.location_x = FloatOf(widgets.OffsetX)
               /\ config'.location_y = FloatOf(widgets.OffsetY)
               /\ \A key \in FixedKeys : config'[key] = DefaultConfig[key]
      ]_vars

C22_Witness ==
    /\ gui.handler = "none"
    /\ gui.outcome = "ValueError"
    /\ gui.events >= 1
    /\ widgets.Power = ""
    /\ Complete(config)
    /\ config.laser_power = DefaultCtrl.laser_power

====
